---------------------------- MODULE Spec2Model ----------------------------
(***************************************************************************)
(* custom::list<T, A> of list.h: a doubly-linked list of heap Nodes.       *)
(*                                                                         *)
(* The heap is a finite pool of Node cells; `new Node` takes a free cell   *)
(* and throws std::bad_alloc when none is left, `delete` gives it back.    *)
(* Two list objects, "A" and "B", are constructed, mutated, assigned and   *)
(* destroyed in any order.  Every member function is one operator on a     *)
(* store record (the fields of both list objects and of all Nodes); the    *)
(* actions apply them to the variables.  The client makes one call, looks  *)
(* at what came back (`op`, `ret`, `threw`, `freed`), and goes on to its   *)
(* next statement.                                                         *)
(*                                                                         *)
(* Spec is the client of the constructors, the destructor, copy            *)
(* assignment, push, pop, clear, insert and erase.  SpecAccess adds move   *)
(* assignment, assignment from an initializer list, front() and back();    *)
(* SpecSwap is a client of push_back, pop_front and the two swaps.         *)
(***************************************************************************)
EXTENDS Integers, Sequences, FiniteSets

\* ------------------------------------------------------------------ bounds
\* number of Node cells the heap can hold
MaxNodes == 4
\* largest num of the fill constructors, longest initializer list / range
MaxFill == 2
\* number of activations of one function the call stack can hold
MaxCalls == 3
\* number of T objects the heap can hold besides the Nodes
MaxStrays == 1

\* ------------------------------------------------------------- vocabulary
NULL == 0
Nodes == 1..MaxNodes
Ptr == Nodes \cup {NULL}
\* the element type T: the list stores, copies and moves elements and never
\* inspects one, so two distinguishable values show any misplaced element
T == {0, 1}
Lists == {"A", "B"}
Other(l) == IF l = "A" THEN "B" ELSE "A"
Literals == UNION {[1..k -> T] : k \in 0..MaxFill}

VARIABLES
    numElements,   \* list -> size_t            list::numElements
    pHead,         \* list -> Node*             list::pHead
    pTail,         \* list -> Node*             list::pTail
    pNext,         \* Node -> Node*             Node::pNext
    pPrev,         \* Node -> Node*             Node::pPrev
    data,          \* Node -> T                 Node::data
    allocated,     \* the Nodes obtained by new and not yet deleted
    constructed,   \* list -> is the object within its lifetime
    threw,         \* did the call leave by an exception
    ret,           \* the iterator (its p) the call returned
    freed,         \* the Nodes the call deleted, in order
    op,            \* the call the client has just made, "none" between statements
    strays,        \* the T objects obtained by new T, none of them ever deleted
    calls          \* the activations of operator = (list &&) on the call stack

vars == <<numElements, pHead, pTail, pNext, pPrev, data, allocated,
          constructed, threw, ret, freed, op, strays, calls>>

\* ------------------------------------------------------------------ store
Cur == [numElements |-> numElements, pHead |-> pHead, pTail |-> pTail,
        pNext |-> pNext, pPrev |-> pPrev, data |-> data,
        allocated |-> allocated, constructed |-> constructed,
        threw |-> threw, ret |-> ret, freed |-> freed, strays |-> strays]

\* the store at the entry of a call
Begin == [Cur EXCEPT !.threw = FALSE, !.ret = NULL, !.freed = <<>>]

\* ------------------------------------------------------------------- heap
\* operator new: is there room for one more Node
CanAlloc(S) == S.allocated # Nodes

\* operator new: the cell it hands out (the lowest free one)
NewNode(S) ==
    CHOOSE n \in Nodes \ S.allocated : \A m \in Nodes \ S.allocated : n <= m

\* std::bad_alloc leaves the function
Throw(S) == [S EXCEPT !.threw = TRUE]

\* Node(const T & data) / Node(T && data) at cell n
Node_data(S, n, d) ==
    [S EXCEPT !.allocated = @ \cup {n}, !.pNext[n] = NULL, !.pPrev[n] = NULL,
              !.data[n] = d]

\* delete p: the cell is given back, what it held is gone
Delete(S, n) ==
    [S EXCEPT !.allocated = @ \ {n}, !.pNext[n] = NULL, !.pPrev[n] = NULL,
              !.data[n] = 0, !.freed = Append(@, n)]

\* ------------------------------------------------------------- traversals
RECURSIVE Walk(_, _, _)
Walk(link, n, fuel) ==
    IF n = NULL \/ fuel = 0 THEN <<>>
    ELSE <<n>> \o Walk(link, link[n], fuel - 1)

\* the Nodes met from pHead along pNext (it = begin(); it != end(); ++it)
Fwd(S, l) == Walk(S.pNext, S.pHead[l], MaxNodes + 1)
\* the Nodes met from pTail along pPrev (it = rbegin(); it != end(); --it)
Bwd(S, l) == Walk(S.pPrev, S.pTail[l], MaxNodes + 1)
\* the elements read from the head
Elems(S, l) == [i \in 1..Len(Fwd(S, l)) |-> S.data[Fwd(S, l)[i]]]
Range(s) == {s[i] : i \in 1..Len(s)}

\* ----------------------------------------------------------------- status
empty(S, l) == S.pHead[l] = NULL
size(S, l) == S.numElements[l]
begin(S, l) == S.pHead[l]
end(S, l) == NULL

\* --------------------------------------------------------------- push_back
push_back(S, l, d) ==
    IF ~CanAlloc(S) THEN Throw(S)
    ELSE LET pNew == NewNode(S)
             S1 == Node_data(S, pNew, d)
         IN IF S1.pTail[l] # NULL
            THEN [S1 EXCEPT !.pNext[S1.pTail[l]] = pNew,
                            !.pPrev[pNew] = S1.pTail[l],
                            !.pTail[l] = pNew,
                            !.numElements[l] = @ + 1]
            ELSE [S1 EXCEPT !.pHead[l] = pNew, !.pTail[l] = pNew,
                            !.numElements[l] = @ + 1]

\* push_back(T && data): the same links, the element moved into the Node
push_back_move(S, l, d) ==
    IF ~CanAlloc(S) THEN Throw(S)
    ELSE LET pNew == NewNode(S)
             S1 == Node_data(S, pNew, d)
         IN IF S1.pTail[l] # NULL
            THEN [S1 EXCEPT !.pNext[S1.pTail[l]] = pNew,
                            !.pPrev[pNew] = S1.pTail[l],
                            !.pTail[l] = pNew,
                            !.numElements[l] = @ + 1]
            ELSE [S1 EXCEPT !.pHead[l] = pNew, !.pTail[l] = pNew,
                            !.numElements[l] = @ + 1]

\* push_front gone wrong: the Node is linked at the tail
push_front_at_back(S, l, d) == push_back(S, l, d)

\* -------------------------------------------------------------- push_front
push_front(S, l, d) ==
    IF ~CanAlloc(S) THEN Throw(S)
    ELSE LET pNew == NewNode(S)
             S1 == Node_data(S, pNew, d)
         IN IF S1.pHead[l] # NULL
            THEN [S1 EXCEPT !.pPrev[S1.pHead[l]] = pNew,
                            !.pNext[pNew] = S1.pHead[l],
                            !.pHead[l] = pNew,
                            !.numElements[l] = @ + 1]
            ELSE [S1 EXCEPT !.pHead[l] = pNew, !.pTail[l] = pNew,
                            !.numElements[l] = @ + 1]

push_front_move(S, l, d) ==
    IF ~CanAlloc(S) THEN Throw(S)
    ELSE LET pNew == NewNode(S)
             S1 == Node_data(S, pNew, d)
         IN IF S1.pHead[l] # NULL
            THEN [S1 EXCEPT !.pPrev[S1.pHead[l]] = pNew,
                            !.pNext[pNew] = S1.pHead[l],
                            !.pHead[l] = pNew,
                            !.numElements[l] = @ + 1]
            ELSE [S1 EXCEPT !.pHead[l] = pNew, !.pTail[l] = pNew,
                            !.numElements[l] = @ + 1]

\* pop_back gone wrong: pHead keeps the deleted Node when the list empties
pop_back_keeps_head(S, l) ==
    IF S.pTail[l] # NULL
    THEN LET pDelete == S.pTail[l]
             S1 == [S EXCEPT !.pTail[l] = S.pPrev[pDelete]]
             S2 == IF S1.pTail[l] # NULL
                   THEN [S1 EXCEPT !.pNext[S1.pTail[l]] = NULL]
                   ELSE S1
             S3 == Delete(S2, pDelete)
         IN [S3 EXCEPT !.numElements[l] = @ - 1]
    ELSE S

\* ---------------------------------------------------------------- pop_back
pop_back(S, l) ==
    IF S.pTail[l] # NULL
    THEN LET pDelete == S.pTail[l]
             S1 == [S EXCEPT !.pTail[l] = S.pPrev[pDelete]]
             S2 == IF S1.pTail[l] # NULL
                   THEN [S1 EXCEPT !.pNext[S1.pTail[l]] = NULL]
                   ELSE [S1 EXCEPT !.pHead[l] = NULL]
             S3 == Delete(S2, pDelete)
         IN [S3 EXCEPT !.numElements[l] = @ - 1]
    ELSE S

\* pop_front gone wrong: numElements-- stands after the if, not inside it
pop_front_counts_always(S, l) ==
    LET S4 == IF S.pHead[l] # NULL
              THEN LET pDelete == S.pHead[l]
                       S1 == [S EXCEPT !.pHead[l] = S.pNext[pDelete]]
                       S2 == IF S1.pHead[l] # NULL
                             THEN [S1 EXCEPT !.pPrev[S1.pHead[l]] = NULL]
                             ELSE [S1 EXCEPT !.pTail[l] = NULL]
                   IN Delete(S2, pDelete)
              ELSE S
    IN [S4 EXCEPT !.numElements[l] = @ - 1]

\* --------------------------------------------------------------- pop_front
pop_front(S, l) ==
    IF S.pHead[l] # NULL
    THEN LET pDelete == S.pHead[l]
             S1 == [S EXCEPT !.pHead[l] = S.pNext[pDelete]]
             S2 == IF S1.pHead[l] # NULL
                   THEN [S1 EXCEPT !.pPrev[S1.pHead[l]] = NULL]
                   ELSE [S1 EXCEPT !.pTail[l] = NULL]
             S3 == Delete(S2, pDelete)
         IN [S3 EXCEPT !.numElements[l] = @ - 1]
    ELSE S

\* the loop of clear gone wrong: the Nodes are deleted from the tail backwards
RECURSIVE clear_loop_from_tail(_, _)
clear_loop_from_tail(S, l) ==
    IF S.pTail[l] # NULL
    THEN LET pDelete == S.pTail[l]
             S1 == [S EXCEPT !.pTail[l] = S.pPrev[pDelete]]
         IN clear_loop_from_tail(Delete(S1, pDelete), l)
    ELSE [S EXCEPT !.pHead[l] = NULL]

\* ------------------------------------------------------------------- clear
RECURSIVE clear_loop(_, _)
clear_loop(S, l) ==
    IF S.pHead[l] # NULL
    THEN LET pDelete == S.pHead[l]
             S1 == [S EXCEPT !.pHead[l] = S.pNext[pDelete]]
         IN clear_loop(Delete(S1, pDelete), l)
    ELSE S

clear(S, l) ==
    LET S1 == clear_loop(S, l)
    IN [S1 EXCEPT !.pTail[l] = NULL, !.numElements[l] = 0]

\* erase gone wrong: numElements is not decremented
erase_keeps_count(S, l, it) ==
    LET pDelete == it
    IN IF pDelete = NULL THEN [S EXCEPT !.ret = end(S, l)]
       ELSE LET S1 == IF S.pPrev[pDelete] # NULL
                      THEN [S EXCEPT !.pNext[S.pPrev[pDelete]] = S.pNext[pDelete]]
                      ELSE [S EXCEPT !.pHead[l] = S.pNext[pDelete]]
                S2 == IF S1.pNext[pDelete] # NULL
                      THEN [S1 EXCEPT !.pPrev[S1.pNext[pDelete]] = S1.pPrev[pDelete]]
                      ELSE [S1 EXCEPT !.pTail[l] = S1.pPrev[pDelete]]
                next == S2.pNext[pDelete]
                S3 == Delete(S2, pDelete)
            IN [S3 EXCEPT !.ret = next]

\* erase gone wrong: the iterator returned is the one before the erased Node
erase_returns_prev(S, l, it) ==
    LET pDelete == it
    IN IF pDelete = NULL THEN [S EXCEPT !.ret = end(S, l)]
       ELSE LET S1 == IF S.pPrev[pDelete] # NULL
                      THEN [S EXCEPT !.pNext[S.pPrev[pDelete]] = S.pNext[pDelete]]
                      ELSE [S EXCEPT !.pHead[l] = S.pNext[pDelete]]
                S2 == IF S1.pNext[pDelete] # NULL
                      THEN [S1 EXCEPT !.pPrev[S1.pNext[pDelete]] = S1.pPrev[pDelete]]
                      ELSE [S1 EXCEPT !.pTail[l] = S1.pPrev[pDelete]]
                prev == S2.pPrev[pDelete]
                S3 == Delete(S2, pDelete)
            IN [S3 EXCEPT !.numElements[l] = @ - 1, !.ret = prev]

\* erase gone wrong: pHead is not moved when the head is erased
erase_keeps_head(S, l, it) ==
    LET pDelete == it
    IN IF pDelete = NULL THEN [S EXCEPT !.ret = end(S, l)]
       ELSE LET S1 == IF S.pPrev[pDelete] # NULL
                      THEN [S EXCEPT !.pNext[S.pPrev[pDelete]] = S.pNext[pDelete]]
                      ELSE S
                S2 == IF S1.pNext[pDelete] # NULL
                      THEN [S1 EXCEPT !.pPrev[S1.pNext[pDelete]] = S1.pPrev[pDelete]]
                      ELSE [S1 EXCEPT !.pTail[l] = S1.pPrev[pDelete]]
                next == S2.pNext[pDelete]
                S3 == Delete(S2, pDelete)
            IN [S3 EXCEPT !.numElements[l] = @ - 1, !.ret = next]

\* ------------------------------------------------------------------- erase
erase(S, l, it) ==
    LET pDelete == it
    IN IF pDelete = NULL THEN [S EXCEPT !.ret = end(S, l)]
       ELSE LET S1 == IF S.pPrev[pDelete] # NULL
                      THEN [S EXCEPT !.pNext[S.pPrev[pDelete]] = S.pNext[pDelete]]
                      ELSE [S EXCEPT !.pHead[l] = S.pNext[pDelete]]
                S2 == IF S1.pNext[pDelete] # NULL
                      THEN [S1 EXCEPT !.pPrev[S1.pNext[pDelete]] = S1.pPrev[pDelete]]
                      ELSE [S1 EXCEPT !.pTail[l] = S1.pPrev[pDelete]]
                next == S2.pNext[pDelete]
                S3 == Delete(S2, pDelete)
            IN [S3 EXCEPT !.numElements[l] = @ - 1, !.ret = next]

\* insert gone wrong: the Node after the new one keeps its old pPrev
insert_one_way(S, l, it, d) ==
    IF ~CanAlloc(S) THEN Throw(S)
    ELSE LET pNew == NewNode(S)
             S1 == Node_data(S, pNew, d)
         IN IF empty(S1, l)
            THEN LET S2 == [S1 EXCEPT !.pHead[l] = pNew, !.pTail[l] = pNew,
                                      !.numElements[l] = 1]
                 IN [S2 EXCEPT !.ret = begin(S2, l)]
            ELSE IF it = end(S1, l)
            THEN [S1 EXCEPT !.pNext[S1.pTail[l]] = pNew,
                            !.pPrev[pNew] = S1.pTail[l],
                            !.pTail[l] = pNew,
                            !.numElements[l] = @ + 1,
                            !.ret = pNew]
            ELSE LET S2 == [S1 EXCEPT !.pPrev[pNew] = S1.pPrev[it],
                                      !.pNext[pNew] = it]
                     S3 == IF S2.pPrev[pNew] # NULL
                           THEN [S2 EXCEPT !.pNext[S2.pPrev[pNew]] = pNew]
                           ELSE [S2 EXCEPT !.pHead[l] = pNew]
                 IN [S3 EXCEPT !.numElements[l] = @ + 1, !.ret = pNew]

\* insert gone wrong: the iterator returned is the position, not the new Node
insert_returns_position(S, l, it, d) ==
    IF ~CanAlloc(S) THEN Throw(S)
    ELSE LET pNew == NewNode(S)
             S1 == Node_data(S, pNew, d)
         IN IF empty(S1, l)
            THEN LET S2 == [S1 EXCEPT !.pHead[l] = pNew, !.pTail[l] = pNew,
                                      !.numElements[l] = 1]
                 IN [S2 EXCEPT !.ret = begin(S2, l)]
            ELSE IF it = end(S1, l)
            THEN [S1 EXCEPT !.pNext[S1.pTail[l]] = pNew,
                            !.pPrev[pNew] = S1.pTail[l],
                            !.pTail[l] = pNew,
                            !.numElements[l] = @ + 1,
                            !.ret = pNew]
            ELSE LET S2 == [S1 EXCEPT !.pPrev[pNew] = S1.pPrev[it],
                                      !.pNext[pNew] = it]
                     S3 == IF S2.pPrev[pNew] # NULL
                           THEN [S2 EXCEPT !.pNext[S2.pPrev[pNew]] = pNew]
                           ELSE [S2 EXCEPT !.pHead[l] = pNew]
                     S4 == IF S3.pNext[pNew] # NULL
                           THEN [S3 EXCEPT !.pPrev[S3.pNext[pNew]] = pNew]
                           ELSE [S3 EXCEPT !.pTail[l] = pNew]
                 IN [S4 EXCEPT !.numElements[l] = @ + 1, !.ret = it]

\* ------------------------------------------------------------------ insert
insert(S, l, it, d) ==
    IF ~CanAlloc(S) THEN Throw(S)
    ELSE LET pNew == NewNode(S)
             S1 == Node_data(S, pNew, d)
         IN IF empty(S1, l)
            THEN LET S2 == [S1 EXCEPT !.pHead[l] = pNew, !.pTail[l] = pNew,
                                      !.numElements[l] = 1]
                 IN [S2 EXCEPT !.ret = begin(S2, l)]
            ELSE IF it = end(S1, l)
            THEN [S1 EXCEPT !.pNext[S1.pTail[l]] = pNew,
                            !.pPrev[pNew] = S1.pTail[l],
                            !.pTail[l] = pNew,
                            !.numElements[l] = @ + 1,
                            !.ret = pNew]
            ELSE LET S2 == [S1 EXCEPT !.pPrev[pNew] = S1.pPrev[it],
                                      !.pNext[pNew] = it]
                     S3 == IF S2.pPrev[pNew] # NULL
                           THEN [S2 EXCEPT !.pNext[S2.pPrev[pNew]] = pNew]
                           ELSE [S2 EXCEPT !.pHead[l] = pNew]
                     S4 == IF S3.pNext[pNew] # NULL
                           THEN [S3 EXCEPT !.pPrev[S3.pNext[pNew]] = pNew]
                           ELSE [S3 EXCEPT !.pTail[l] = pNew]
                 IN [S4 EXCEPT !.numElements[l] = @ + 1, !.ret = pNew]

\* insert(iterator it, T && data)
insert_move(S, l, it, d) == [S EXCEPT !.ret = end(S, l)]

\* ------------------------------------------------------------ constructors
\* the member initializers every constructor starts with
Members(S, l) ==
    [S EXCEPT !.constructed[l] = TRUE, !.numElements[l] = 0,
              !.pHead[l] = NULL, !.pTail[l] = NULL]

\* an exception leaving a constructor: the object never existed and its
\* destructor does not run.  The Nodes it had built stay allocated and no
\* pointer to them is left; what they hold cannot be read again and is
\* forgotten here
Unwind(S, l) ==
    IF S.threw
    THEN LET lost == Range(Fwd(S, l))
         IN [S EXCEPT !.constructed[l] = FALSE, !.numElements[l] = 0,
                      !.pHead[l] = NULL, !.pTail[l] = NULL,
                      !.pNext = [n \in Nodes |-> IF n \in lost THEN NULL ELSE @[n]],
                      !.pPrev = [n \in Nodes |-> IF n \in lost THEN NULL ELSE @[n]],
                      !.data = [n \in Nodes |-> IF n \in lost THEN 0 ELSE @[n]]]
    ELSE S

\* list(const A & a = A())
list_default(S, l) == Members(S, l)

\* the copy loop gone wrong: each element is pushed at the front
RECURSIVE copy_loop_reversed(_, _, _)
copy_loop_reversed(S, l, pCurrent) ==
    IF pCurrent # NULL
    THEN LET S1 == push_front(S, l, S.data[pCurrent])
         IN IF S1.threw THEN S1 ELSE copy_loop_reversed(S1, l, S1.pNext[pCurrent])
    ELSE S

\* while (pCurrent != nullptr) { push_back(pCurrent->data); pCurrent = pCurrent->pNext; }
RECURSIVE copy_loop(_, _, _)
copy_loop(S, l, pCurrent) ==
    IF pCurrent # NULL
    THEN LET S1 == push_back(S, l, S.data[pCurrent])
         IN IF S1.threw THEN S1 ELSE copy_loop(S1, l, S1.pNext[pCurrent])
    ELSE S

\* list(list & rhs)
list_copy(S, l, rhs) ==
    LET S0 == Members(S, l)
    IN Unwind(IF S0.pHead[rhs] # NULL THEN copy_loop(S0, l, S0.pHead[rhs])
              ELSE S0, l)

\* the move constructor gone wrong: rhs keeps its pointers and its count
list_move_shallow(S, l, rhs) ==
    [S EXCEPT !.constructed[l] = TRUE,
              !.numElements[l] = S.numElements[rhs],
              !.pHead[l] = S.pHead[rhs],
              !.pTail[l] = S.pTail[rhs]]

\* list(list && rhs)
list_move(S, l, rhs) ==
    LET S0 == [S EXCEPT !.constructed[l] = TRUE,
                        !.numElements[l] = S.numElements[rhs],
                        !.pHead[l] = S.pHead[rhs],
                        !.pTail[l] = S.pTail[rhs]]
    IN [S0 EXCEPT !.pHead[rhs] = NULL, !.pTail[rhs] = NULL,
                  !.numElements[rhs] = 0]

\* for (size_t i = 1; i < num; ++i) of list(num, t)
RECURSIVE fill_loop(_, _, _, _, _)
fill_loop(S, pCurrent, i, num, t) ==
    IF i < num
    THEN IF ~CanAlloc(S) THEN [S |-> Throw(S), p |-> pCurrent]
         ELSE LET pNew == NewNode(S)
                  S1 == Node_data(S, pNew, t)
                  S2 == [S1 EXCEPT !.pNext[pCurrent] = pNew,
                                   !.pPrev[pNew] = pCurrent]
              IN fill_loop(S2, pNew, i + 1, num, t)
    ELSE [S |-> S, p |-> pCurrent]

\* list(size_t num, const T & t)
list_fill(S, l, num, t) ==
    LET S0 == Members(S, l)
    IN Unwind(IF num > 0
              THEN IF ~CanAlloc(S0) THEN Throw(S0)
                   ELSE LET h == NewNode(S0)
                            S1 == [Node_data(S0, h, t) EXCEPT !.pHead[l] = h]
                            R == fill_loop(S1, h, 1, num, t)
                        IN IF R.S.threw THEN R.S
                           ELSE [R.S EXCEPT !.pTail[l] = R.p,
                                            !.numElements[l] = num]
              ELSE S0, l)

\* for (size_t i = 1; i < num; i++) of list(num); Node() leaves data
\* default-initialized: g[i] is what the i-th Node happens to hold
RECURSIVE fill_default_loop(_, _, _, _, _)
fill_default_loop(S, pPrevious, i, num, g) ==
    IF i < num
    THEN IF ~CanAlloc(S) THEN [S |-> Throw(S), p |-> pPrevious]
         ELSE LET pNew == NewNode(S)
                  S1 == Node_data(S, pNew, g[i + 1])
                  S2 == [S1 EXCEPT !.pPrev[pNew] = pPrevious]
                  S3 == [S2 EXCEPT !.pNext[S2.pPrev[pNew]] = pNew]
              IN fill_default_loop(S3, pNew, i + 1, num, g)
    ELSE [S |-> S, p |-> pPrevious]

\* list(size_t num)
list_fill_default(S, l, num, g) ==
    LET S0 == Members(S, l)
    IN Unwind(IF num # 0
              THEN IF ~CanAlloc(S0) THEN Throw(S0)
                   ELSE LET h == NewNode(S0)
                            S1 == [Node_data(S0, h, g[1]) EXCEPT !.pHead[l] = h]
                            S2 == [S1 EXCEPT !.pPrev[S1.pHead[l]] = NULL]
                            R == fill_default_loop(S2, h, 1, num, g)
                        IN IF R.S.threw THEN R.S
                           ELSE [R.S EXCEPT !.pNext[R.p] = NULL,
                                            !.pTail[l] = R.p,
                                            !.numElements[l] = num]
              ELSE S0, l)

\* for (const T & item : il) push_back(item);
RECURSIVE il_loop(_, _, _)
il_loop(S, l, il) ==
    IF il # <<>>
    THEN LET S1 == push_back(S, l, Head(il))
         IN IF S1.threw THEN S1 ELSE il_loop(S1, l, Tail(il))
    ELSE S

\* list(const std::initializer_list<T> & il)
list_il(S, l, il) == Unwind(il_loop(Members(S, l), l, il), l)

\* for (Iterator it = first; it != last; ++it) push_back(*it);
RECURSIVE range_loop(_, _, _)
range_loop(S, l, range) ==
    IF range # <<>>
    THEN LET S1 == push_back(S, l, Head(range))
         IN IF S1.threw THEN S1 ELSE range_loop(S1, l, Tail(range))
    ELSE S

\* list(Iterator first, Iterator last)
list_range(S, l, range) == Unwind(range_loop(Members(S, l), l, range), l)

\* ~list()
dtor(S, l) == [clear(S, l) EXCEPT !.constructed[l] = FALSE]

\* -------------------------------------------------------------- assignment
\* copy assignment gone wrong: no test of this != &rhs
assign_copy_unguarded(S, l, rhs) ==
    LET S1 == clear(S, l)
    IN copy_loop(S1, l, S1.pHead[rhs])

\* operator = (list & rhs)
assign_copy(S, l, rhs) ==
    IF l # rhs
    THEN LET S1 == clear(S, l)
         IN copy_loop(S1, l, S1.pHead[rhs])
    ELSE S

\* operator = (const std::initializer_list<T> & rhs): return *this
assign_il(S, l, rhs) == S

\* -------------------------------------------------------------------- swap
\* void swap(list <T, A> & rhs) {}
list_swap(S, l, rhs) == S

\* void swap(list <T, A> & lhs, list <T, A> & rhs)
swap(S, lhs, rhs) == [S EXCEPT !.numElements[lhs] = 99]

\* ------------------------------------------------------------ front, back
\* new T: the heap has room for MaxStrays objects of type T and operator new
\* throws std::bad_alloc when they are taken
CanAllocT(S) == S.strays < MaxStrays

\* *(new T): a reference to an object no pointer is kept to
new_T(S) ==
    IF ~CanAllocT(S) THEN Throw(S)
    ELSE [S EXCEPT !.strays = @ + 1, !.ret = NULL]

\* T & front(): ret is the Node whose data the reference names, NULL when it
\* names the data of no Node
front(S, l) ==
    IF S.numElements[l] # 0
    THEN [S EXCEPT !.ret = S.pHead[l]]
    ELSE new_T(S)

\* T & back()
back(S, l) ==
    IF S.numElements[l] # 0
    THEN [S EXCEPT !.ret = S.pTail[l]]
    ELSE new_T(S)

\* ------------------------------------------------------------- round trip
\* l.erase(l.insert(it, data))
insert_erase(S, l, it, d) ==
    LET S1 == insert(S, l, it, d)
    IN IF S1.threw THEN S1 ELSE erase(S1, l, S1.ret)

\* l.erase(l.insert(it, std::move(data)))
insert_move_erase(S, l, it, d) ==
    LET S1 == insert_move(S, l, it, d)
    IN IF S1.threw THEN S1 ELSE erase(S1, l, S1.ret)

\* ---------------------------------------------------------------- actions
\* the call `name` ran from Begin to S and has returned
Install(S, name) ==
    /\ op' = name
    /\ threw' = S.threw
    /\ ret' = S.ret
    /\ freed' = S.freed
    /\ numElements' = S.numElements
    /\ pHead' = S.pHead
    /\ pTail' = S.pTail
    /\ pNext' = S.pNext
    /\ pPrev' = S.pPrev
    /\ data' = S.data
    /\ allocated' = S.allocated
    /\ constructed' = S.constructed
    /\ strays' = S.strays
    /\ calls' = 0

Init ==
    /\ numElements = [l \in Lists |-> 0]
    /\ pHead = [l \in Lists |-> NULL]
    /\ pTail = [l \in Lists |-> NULL]
    /\ pNext = [n \in Nodes |-> NULL]
    /\ pPrev = [n \in Nodes |-> NULL]
    /\ data = [n \in Nodes |-> 0]
    /\ allocated = {}
    /\ constructed = [l \in Lists |-> TRUE]
    /\ threw = FALSE
    /\ ret = NULL
    /\ freed = <<>>
    /\ op = "none"
    /\ strays = 0
    /\ calls = 0

\* a valid argument of insert and erase: an iterator to a Node of the list,
\* or end()
Iterators(l) == Range(Fwd(Cur, l)) \cup {NULL}

\* the client is between two statements and l is an object it may use
Ready(l) == op = "none" /\ constructed[l]
\* the client is between two statements and may declare l
Fresh(l) == op = "none" /\ ~constructed[l]

DefaultOn(l) == Fresh(l) /\ Install(list_default(Begin, l), "list")

CopyConstructOn(l, rhs) ==
    Fresh(l) /\ constructed[rhs] /\ Install(list_copy(Begin, l, rhs), "list_copy")

MoveConstructOn(l, rhs) ==
    Fresh(l) /\ constructed[rhs] /\ Install(list_move(Begin, l, rhs), "list_move")

FillOn(l, num, t) == Fresh(l) /\ Install(list_fill(Begin, l, num, t), "list_fill")

FillDefaultOn(l, num, g) ==
    Fresh(l) /\ Install(list_fill_default(Begin, l, num, g), "list_fill_default")

FromInitializerListOn(l, il) == Fresh(l) /\ Install(list_il(Begin, l, il), "list_il")

FromRangeOn(l, range) ==
    Fresh(l) /\ Install(list_range(Begin, l, range), "list_range")

DestroyOn(l) == Ready(l) /\ Install(dtor(Begin, l), "dtor")

CopyAssignOn(l, rhs) ==
    Ready(l) /\ constructed[rhs] /\ Install(assign_copy(Begin, l, rhs), "assign_copy")

PushBackOn(l, d) == Ready(l) /\ Install(push_back(Begin, l, d), "push_back")

PushBackMoveOn(l, d) ==
    Ready(l) /\ Install(push_back_move(Begin, l, d), "push_back_move")

PushFrontOn(l, d) == Ready(l) /\ Install(push_front(Begin, l, d), "push_front")

PushFrontMoveOn(l, d) ==
    Ready(l) /\ Install(push_front_move(Begin, l, d), "push_front_move")

PopBackOn(l) == Ready(l) /\ Install(pop_back(Begin, l), "pop_back")

PopFrontOn(l) == Ready(l) /\ Install(pop_front(Begin, l), "pop_front")

ClearOn(l) == Ready(l) /\ Install(clear(Begin, l), "clear")

EraseOn(l, it) == Ready(l) /\ Install(erase(Begin, l, it), "erase")

InsertOn(l, it, d) == Ready(l) /\ Install(insert(Begin, l, it, d), "insert")

InsertMoveOn(l, it, d) ==
    Ready(l) /\ Install(insert_move(Begin, l, it, d), "insert_move")

InsertEraseOn(l, it, d) ==
    Ready(l) /\ Install(insert_erase(Begin, l, it, d), "insert_erase")

InsertMoveEraseOn(l, it, d) ==
    Ready(l) /\ Install(insert_move_erase(Begin, l, it, d), "insert_move_erase")

Default == \E l \in Lists : DefaultOn(l)
CopyConstruct == \E l \in Lists : CopyConstructOn(l, Other(l))
MoveConstruct == \E l \in Lists : MoveConstructOn(l, Other(l))
Fill == \E l \in Lists, num \in 0..MaxFill, t \in T : FillOn(l, num, t)
FillDefault ==
    \E l \in Lists, num \in 0..MaxFill : \E g \in [1..num -> T] :
        FillDefaultOn(l, num, g)
FromInitializerList == \E l \in Lists, il \in Literals : FromInitializerListOn(l, il)
FromRange == \E l \in Lists, range \in Literals : FromRangeOn(l, range)
Destroy == \E l \in Lists : DestroyOn(l)
CopyAssign == \E l \in Lists, rhs \in Lists : CopyAssignOn(l, rhs)
PushBack == \E l \in Lists, d \in T : PushBackOn(l, d)
PushBackMove == \E l \in Lists, d \in T : PushBackMoveOn(l, d)
PushFront == \E l \in Lists, d \in T : PushFrontOn(l, d)
PushFrontMove == \E l \in Lists, d \in T : PushFrontMoveOn(l, d)
PopBack == \E l \in Lists : PopBackOn(l)
PopFront == \E l \in Lists : PopFrontOn(l)
Clear == \E l \in Lists : ClearOn(l)
Erase == \E l \in Lists : \E it \in Iterators(l) : EraseOn(l, it)
Insert == \E l \in Lists, d \in T : \E it \in Iterators(l) : InsertOn(l, it, d)
InsertMove ==
    \E l \in Lists, d \in T : \E it \in Iterators(l) : InsertMoveOn(l, it, d)
InsertErase ==
    \E l \in Lists, d \in T : \E it \in Iterators(l) : InsertEraseOn(l, it, d)
InsertMoveErase ==
    \E l \in Lists, d \in T : \E it \in Iterators(l) : InsertMoveEraseOn(l, it, d)

\* lhs = std::move(rhs): operator = (list && rhs) is entered
MoveAssignOn(l, rhs) ==
    /\ Ready(l)
    /\ constructed[rhs]
    /\ calls = 0
    /\ op' = "assign_move"
    /\ calls' = 1
    /\ UNCHANGED <<numElements, pHead, pTail, pNext, pPrev, data, allocated,
                   constructed, threw, ret, freed, strays>>

\* *this = std::move(rhs), the first statement of operator = (list && rhs):
\* std::move(rhs) is an rvalue, so the operator called is operator = (list &&
\* rhs) again, with the same operands.  The activation waits for that call;
\* its return *this is reached only when the call returns.  With MaxCalls
\* activations the stack is used up and the program goes no further.
MoveAssignBody ==
    /\ op = "assign_move"
    /\ calls \in 1..(MaxCalls - 1)
    /\ calls' = calls + 1
    /\ UNCHANGED <<numElements, pHead, pTail, pNext, pPrev, data, allocated,
                   constructed, threw, ret, freed, op, strays>>

InitializerListAssignOn(l, il) ==
    Ready(l) /\ Install(assign_il(Begin, l, il), "assign_il")

MemberSwapOn(l, rhs) ==
    Ready(l) /\ constructed[rhs] /\ Install(list_swap(Begin, l, rhs), "list_swap")

SwapOn(lhs, rhs) ==
    Ready(lhs) /\ constructed[rhs] /\ Install(swap(Begin, lhs, rhs), "swap")

FrontOn(l) == Ready(l) /\ Install(front(Begin, l), "front")

BackOn(l) == Ready(l) /\ Install(back(Begin, l), "back")

MoveAssign == \E l \in Lists, rhs \in Lists : MoveAssignOn(l, rhs)
InitializerListAssign ==
    \E l \in Lists, il \in Literals : InitializerListAssignOn(l, il)
MemberSwap == \E l \in Lists, rhs \in Lists : MemberSwapOn(l, rhs)
Swap == \E lhs \in Lists, rhs \in Lists : SwapOn(lhs, rhs)
FrontCall == \E l \in Lists : FrontOn(l)
BackCall == \E l \in Lists : BackOn(l)

\* the statement is over: the returned iterator goes out of scope, a thrown
\* std::bad_alloc has been caught, and the client goes on
Continue ==
    /\ op # "none"
    /\ calls = 0
    /\ op' = "none"
    /\ threw' = FALSE
    /\ ret' = NULL
    /\ freed' = <<>>
    /\ UNCHANGED <<numElements, pHead, pTail, pNext, pPrev, data, allocated,
                   constructed, strays, calls>>

Next ==
    \/ Default
    \/ CopyConstruct
    \/ MoveConstruct
    \/ Fill
    \/ FillDefault
    \/ FromInitializerList
    \/ FromRange
    \/ Destroy
    \/ CopyAssign
    \/ PushBack
    \/ PushBackMove
    \/ PushFront
    \/ PushFrontMove
    \/ PopBack
    \/ PopFront
    \/ Clear
    \/ Erase
    \/ Insert
    \/ InsertMove
    \/ InsertErase
    \/ InsertMoveErase
    \/ Continue

\* the client that calls no more than the constructors, the destructor,
\* copy assignment, push, pop, clear, insert and erase
Spec == Init /\ [][Next]_vars

\* the client that also assigns by move and from initializer lists and
\* calls front() and back()
NextAccess ==
    \/ Next
    \/ MoveAssign
    \/ MoveAssignBody
    \/ InitializerListAssign
    \/ FrontCall
    \/ BackCall

SpecAccess == Init /\ [][NextAccess]_vars

\* the client that fills two lists at the back, empties them from the front
\* and swaps them, by the member and by the free function
NextSwap ==
    \/ PushBack
    \/ PopFront
    \/ MemberSwap
    \/ Swap
    \/ Continue

SpecSwap == Init /\ [][NextSwap]_vars

\* ----------------------------------------------------- the list as a sequence
NodesOf(l) == Fwd(Cur, l)
ElemsOf(l) == Elems(Cur, l)
\* where position `it` stands in the sequence s of Nodes; end() stands after it
IndexOf(s, it) == IF it = NULL THEN Len(s) + 1 ELSE CHOOSE i \in 1..Len(s) : s[i] = it
InsertAt(s, k, x) == SubSeq(s, 1, k - 1) \o <<x>> \o SubSeq(s, k, Len(s))
RemoveAt(s, k) == SubSeq(s, 1, k - 1) \o SubSeq(s, k + 1, Len(s))
Front(s) == SubSeq(s, 1, Len(s) - 1)
NodesUnchanged == UNCHANGED <<pNext, pPrev, data, allocated>>
ListUnchanged(l) ==
    /\ numElements'[l] = numElements[l]
    /\ pHead'[l] = pHead[l]
    /\ pTail'[l] = pTail[l]
    /\ NodesOf(l)' = NodesOf(l)
    /\ ElemsOf(l)' = ElemsOf(l)

\* ------------------------------------------------------------------ C1
\* C1: in every state, for every list object, size() is the number of Nodes
\* met walking pNext from pHead and the number met walking pPrev from pTail.
C1_SizeIsWalkLength ==
    \A l \in Lists :
        constructed[l] =>
            /\ size(Cur, l) = Len(Fwd(Cur, l))
            /\ size(Cur, l) = Len(Bwd(Cur, l))

\* erase has just removed the tail of a list that still holds two Nodes
C1_Witness ==
    /\ op = "erase"
    /\ freed # <<>>
    /\ ret = NULL
    /\ \E l \in Lists : constructed[l] /\ size(Cur, l) = 2 /\ Len(NodesOf(l)) = 2

\* ------------------------------------------------------------------ C2
\* C2: link symmetry.  For every Node A of a list, if A.pNext is B then
\* B.pPrev is A, and if A.pPrev is B then B.pNext is A.
C2_LinkSymmetry ==
    \A l \in Lists :
        constructed[l] =>
            \A a \in Range(Fwd(Cur, l)) \cup Range(Bwd(Cur, l)) :
                /\ pNext[a] # NULL => pPrev[pNext[a]] = a
                /\ pPrev[a] # NULL => pNext[pPrev[a]] = a

\* insert has just put a Node in front of the head of a non-empty list
C2_Witness ==
    /\ op = "insert"
    /\ ~threw
    /\ \E l \in Lists : constructed[l] /\ ret = pHead[l] /\ pNext[ret] # NULL

\* ------------------------------------------------------------------ C3
\* C3: pHead is null iff pTail is null iff numElements is 0, so that empty()
\* is true exactly when size() is 0 and exactly when begin() equals end().
C3_EmptyAgree ==
    \A l \in Lists :
        constructed[l] =>
            /\ (pHead[l] = NULL) <=> (pTail[l] = NULL)
            /\ (pTail[l] = NULL) <=> (numElements[l] = 0)
            /\ empty(Cur, l) <=> (size(Cur, l) = 0)
            /\ empty(Cur, l) <=> (begin(Cur, l) = end(Cur, l))

\* pop_back has just removed the only Node of a list
C3_Witness ==
    /\ op = "pop_back"
    /\ freed # <<>>
    /\ \E l \in Lists : constructed[l] /\ empty(Cur, l) /\ size(Cur, l) = 0

\* ------------------------------------------------------------------ C4
\* C4: a push_back(v) that returns leaves old ++ [v], a push_front(v) that
\* returns leaves [v] ++ old (copy and move overloads); pop_back on a
\* non-empty list removes exactly the last element and pop_front the first;
\* the other Nodes keep their order, and the count changes by exactly one.
C4_PushPopRefine ==
    [][\A l \in Lists :
        /\ op' \in {"push_back", "push_back_move"} =>
            \A d \in T :
                (PushBackOn(l, d) \/ PushBackMoveOn(l, d)) /\ ~threw' =>
                    /\ ElemsOf(l)' = Append(ElemsOf(l), d)
                    /\ Front(NodesOf(l)') = NodesOf(l)
                    /\ numElements'[l] = numElements[l] + 1
        /\ op' \in {"push_front", "push_front_move"} =>
            \A d \in T :
                (PushFrontOn(l, d) \/ PushFrontMoveOn(l, d)) /\ ~threw' =>
                    /\ ElemsOf(l)' = <<d>> \o ElemsOf(l)
                    /\ Tail(NodesOf(l)') = NodesOf(l)
                    /\ numElements'[l] = numElements[l] + 1
        /\ op' = "pop_back" /\ PopBackOn(l) /\ ElemsOf(l) # <<>> =>
                /\ ElemsOf(l)' = Front(ElemsOf(l))
                /\ NodesOf(l)' = Front(NodesOf(l))
                /\ numElements'[l] = numElements[l] - 1
        /\ op' = "pop_front" /\ PopFrontOn(l) /\ ElemsOf(l) # <<>> =>
                /\ ElemsOf(l)' = Tail(ElemsOf(l))
                /\ NodesOf(l)' = Tail(NodesOf(l))
                /\ numElements'[l] = numElements[l] - 1
      ]_vars

\* push_front has just put an element before two others, unlike its neighbour
C4_Witness ==
    /\ op = "push_front"
    /\ ~threw
    /\ \E l \in Lists :
        /\ constructed[l]
        /\ Len(ElemsOf(l)) >= 3
        /\ ElemsOf(l)[1] # ElemsOf(l)[2]

\* ------------------------------------------------------------------ C5
\* what insert(it, d) on l promises when it returns: d stands immediately
\* before the element of `it` (last when `it` is end()), in a Node that was
\* not allocated before and that the returned iterator references; the count
\* is one more; the new Node is the head when `it` was the head, the tail
\* when `it` was end(), and both when the list was empty.
InsertContract(l, it, d) ==
    LET old == NodesOf(l)
        k == IndexOf(old, it)
    IN /\ ret' # NULL
       /\ ret' \notin allocated
       /\ ret' \in allocated'
       /\ data'[ret'] = d
       /\ NodesOf(l)' = InsertAt(old, k, ret')
       /\ ElemsOf(l)' = InsertAt(ElemsOf(l), k, d)
       /\ numElements'[l] = numElements[l] + 1
       /\ it = pHead[l] => pHead'[l] = ret'
       /\ it = NULL => pTail'[l] = ret'
       /\ old = <<>> => pHead'[l] = ret' /\ pTail'[l] = ret'

\* C5: every insert(it, const T &) that returns, for `it` an iterator to a
\* Node of the list or end(), fulfils InsertContract.
C5_InsertCopy ==
    [][op' = "insert" =>
        \A l \in Lists, d \in T : \A it \in Iterators(l) :
            InsertOn(l, it, d) /\ ~threw' => InsertContract(l, it, d)
      ]_vars

\* insert has just spliced a Node between two others
C5_Witness ==
    /\ op = "insert"
    /\ ~threw
    /\ ret # NULL
    /\ pPrev[ret] # NULL
    /\ pNext[ret] # NULL

\* ------------------------------------------------------------------ C6
\* C6: every insert(it, T &&), for `it` an iterator to a Node of the list or
\* end(), fulfils the contract of the copy overload, InsertContract.
C6_InsertMove ==
    [][op' = "insert_move" =>
        \A l \in Lists, d \in T : \A it \in Iterators(l) :
            InsertMoveOn(l, it, d) /\ ~threw' => InsertContract(l, it, d)
      ]_vars

\* ------------------------------------------------------------------ C7
\* C7: erase(end()) changes nothing and returns end(); erase of a Node of the
\* list removes exactly that element, keeps the order of the others, moves
\* pHead / pTail when the Node was an end, takes one off the count, deletes
\* the Node, and returns the Node that followed it (end() after the tail).
C7_Erase ==
    [][op' = "erase" => \A l \in Lists : \A it \in Iterators(l) :
        EraseOn(l, it) =>
            IF it = NULL
            THEN /\ UNCHANGED <<numElements, pHead, pTail, constructed>>
                 /\ NodesUnchanged
                 /\ ret' = NULL
                 /\ freed' = <<>>
            ELSE LET old == NodesOf(l)
                     k == IndexOf(old, it)
                 IN /\ NodesOf(l)' = RemoveAt(old, k)
                    /\ ElemsOf(l)' = RemoveAt(ElemsOf(l), k)
                    /\ numElements'[l] = numElements[l] - 1
                    /\ pHead'[l] = IF k = 1 THEN pNext[it] ELSE pHead[l]
                    /\ pTail'[l] = IF k = Len(old) THEN pPrev[it] ELSE pTail[l]
                    /\ ret' = IF k = Len(old) THEN NULL ELSE old[k + 1]
                    /\ freed' = <<it>>
                    /\ allocated' = allocated \ {it}
      ]_vars

\* erase has just removed a Node that stood between two others
C7_Witness ==
    /\ op = "erase"
    /\ freed # <<>>
    /\ ret # NULL
    /\ pPrev[ret] # NULL

\* ------------------------------------------------------------------ C8
\* C8: insert(it, v) followed by erase of the iterator insert returned leaves
\* the elements and the count of the list (of every list) as they were
\* before the insert, for either overload of insert.
C8_RoundTrip ==
    [][op' \in {"insert_erase", "insert_move_erase"} =>
        \A l \in Lists :
            /\ ElemsOf(l)' = ElemsOf(l)
            /\ numElements'[l] = numElements[l]
      ]_vars

\* a Node has just been inserted before the head of a non-empty list and
\* erased again
C8_Witness ==
    /\ op = "insert_erase"
    /\ ~threw
    /\ freed # <<>>
    /\ \E l \in Lists : constructed[l] /\ ret # NULL /\ ret = pHead[l]

\* ------------------------------------------------------------------ C9
\* C9: a copy construction or copy assignment from another list that returns
\* leaves the destination with the source's elements in the source's order
\* and as many of them, leaves the source as it was, and shares no Node with
\* it; copy assignment has deleted every Node the destination held before.
C9_Copy ==
    [][\A l \in Lists :
        LET rhs == Other(l)
        IN /\ /\ op' \in {"list_copy", "assign_copy"}
              /\ CopyConstructOn(l, rhs) \/ CopyAssignOn(l, rhs)
              /\ ~threw'
              =>
                /\ ElemsOf(l)' = ElemsOf(rhs)
                /\ numElements'[l] = Len(ElemsOf(rhs))
                /\ numElements'[l] = numElements[rhs]
                /\ ListUnchanged(rhs)
                /\ Range(NodesOf(l)') \cap Range(NodesOf(rhs)') = {}
           /\ op' = "assign_copy" /\ CopyAssignOn(l, rhs) =>
                /\ Range(NodesOf(l)) \subseteq Range(freed')
                /\ Len(freed') = Len(NodesOf(l))
      ]_vars

\* a copy assignment has just replaced what a list held by two unlike elements
C9_Witness ==
    /\ op = "assign_copy"
    /\ ~threw
    /\ freed # <<>>
    /\ ElemsOf("A") = ElemsOf("B")
    /\ Len(ElemsOf("A")) >= 2
    /\ ElemsOf("A")[1] # ElemsOf("A")[2]

\* ------------------------------------------------------------------ C10
\* C10: move construction of l from rhs leaves rhs empty (numElements 0,
\* pHead and pTail null, begin() equal to end()) and l with the very Nodes
\* rhs held, in order, and rhs's count; no Node is allocated, deleted or
\* written.
C10_MoveConstruct ==
    [][\A l \in Lists :
        LET rhs == Other(l)
        IN op' = "list_move" /\ MoveConstructOn(l, rhs) =>
            /\ numElements'[rhs] = 0
            /\ pHead'[rhs] = NULL
            /\ pTail'[rhs] = NULL
            /\ size(Cur, rhs)' = 0
            /\ begin(Cur, rhs)' = end(Cur, rhs)'
            /\ NodesOf(l)' = NodesOf(rhs)
            /\ ElemsOf(l)' = ElemsOf(rhs)
            /\ numElements'[l] = numElements[rhs]
            /\ pHead'[l] = pHead[rhs]
            /\ pTail'[l] = pTail[rhs]
            /\ NodesUnchanged
            /\ freed' = <<>>
            /\ ~threw'
      ]_vars

\* a list of two unlike elements has just been moved into a new list
C10_Witness ==
    /\ op = "list_move"
    /\ \E l \in Lists :
        /\ constructed[l]
        /\ empty(Cur, Other(l))
        /\ Len(ElemsOf(l)) >= 2
        /\ ElemsOf(l)[1] # ElemsOf(l)[2]

\* ------------------------------------------------------------------ C11
\* C11: lhs = std::move(rhs) does not recurse into itself: no activation of
\* operator = (list &&) is entered while another one is running, so that the
\* call can reach its return (with lhs's Nodes released, rhs's Nodes and
\* count in lhs, and rhs empty).
C11_MoveAssign == calls <= 1

\* ------------------------------------------------------------------ C12
\* C12: a swap of two lists, by the member swap or by the free function
\* swap, exchanges their state: each list has the other's prior pHead, pTail
\* and numElements and so the other's prior elements in order; no Node is
\* allocated, deleted or written.
C12_Swap ==
    [][op' \in {"list_swap", "swap"} =>
        \A l \in Lists :
            LET rhs == Other(l)
            IN MemberSwapOn(l, rhs) \/ SwapOn(l, rhs) =>
                /\ pHead'[l] = pHead[rhs]
                /\ pTail'[l] = pTail[rhs]
                /\ numElements'[l] = numElements[rhs]
                /\ pHead'[rhs] = pHead[l]
                /\ pTail'[rhs] = pTail[l]
                /\ numElements'[rhs] = numElements[l]
                /\ ElemsOf(l)' = ElemsOf(rhs)
                /\ ElemsOf(rhs)' = ElemsOf(l)
                /\ NodesUnchanged
                /\ freed' = <<>>
      ]_vars

\* ------------------------------------------------------------------ C13
\* C13: lhs = {..} with a literal sequence il of any length k, 0 included,
\* from any state of lhs: every Node lhs held has been deleted, the elements
\* of lhs are il in order, and size() is k.
C13_InitializerListAssign ==
    [][op' = "assign_il" =>
        \A l \in Lists, il \in Literals :
            InitializerListAssignOn(l, il) /\ ~threw' =>
                /\ Range(NodesOf(l)) \subseteq Range(freed')
                /\ ElemsOf(l)' = il
                /\ size(Cur, l)' = Len(il)
      ]_vars

\* ------------------------------------------------------------------ C14
\* C14: front() and back() on an empty list end in an explicit failure and
\* obtain no object by new that nothing owns; on a non-empty list they return
\* a reference to the element of the head / of the tail and change nothing.
C14_FrontBack ==
    [][op' \in {"front", "back"} =>
        \A l \in Lists :
            /\ op' = "front" /\ FrontOn(l) =>
                IF ElemsOf(l) = <<>>
                THEN threw' /\ strays' = strays
                ELSE ~threw' /\ ret' = pHead[l] /\ strays' = strays
            /\ op' = "back" /\ BackOn(l) =>
                IF ElemsOf(l) = <<>>
                THEN threw' /\ strays' = strays
                ELSE ~threw' /\ ret' = pTail[l] /\ strays' = strays
            /\ ListUnchanged(l)
            /\ NodesUnchanged
      ]_vars

\* ------------------------------------------------------------------ C15
\* C15: pop_front(), pop_back() and clear() on an empty list return without
\* an exception and leave it empty: pHead and pTail stay null, numElements
\* stays 0, and no Node is deleted or written.
C15_EmptyTolerant ==
    [][op' \in {"pop_front", "pop_back", "clear"} =>
        \A l \in Lists :
            /\ PopFrontOn(l) \/ PopBackOn(l) \/ ClearOn(l)
            /\ pHead[l] = NULL /\ pTail[l] = NULL /\ numElements[l] = 0
            =>
                /\ ~threw'
                /\ pHead'[l] = NULL
                /\ pTail'[l] = NULL
                /\ numElements'[l] = 0
                /\ empty(Cur, l)'
                /\ freed' = <<>>
                /\ NodesUnchanged
                /\ ListUnchanged(Other(l))
      ]_vars

\* pop_front has just been called on an empty list whose neighbour holds
\* Nodes
C15_Witness ==
    /\ op = "pop_front"
    /\ freed = <<>>
    /\ \E l \in Lists :
        /\ constructed[l]
        /\ empty(Cur, l)
        /\ size(Cur, l) = 0
        /\ ~empty(Cur, Other(l))

\* ------------------------------------------------------------------ C16
\* C16: when operator new fails inside push_front, push_back, insert or copy
\* assignment on a list, std::bad_alloc reaches the caller and the list is as
\* it was when the call began: the same pHead, pTail and numElements, the
\* same links and elements, and no Node allocated or deleted.
C16_StrongGuarantee ==
    [][/\ threw'
       /\ op' \in {"push_front", "push_front_move", "push_back",
                   "push_back_move", "insert", "assign_copy"}
       =>
        \A l \in Lists :
            /\ \/ \E d \in T : \/ PushFrontOn(l, d) \/ PushFrontMoveOn(l, d)
                               \/ PushBackOn(l, d) \/ PushBackMoveOn(l, d)
               \/ \E d \in T : \E it \in Iterators(l) : InsertOn(l, it, d)
               \/ \E rhs \in Lists : CopyAssignOn(l, rhs)
            =>
                /\ ListUnchanged(l)
                /\ NodesUnchanged
                /\ freed' = <<>>
      ]_vars

\* ------------------------------------------------------------------ C17
\* C17: clear() and the destructor, from any state of the list, delete every
\* Node the list held, each once and in the order from head to tail, and no
\* other Node, and leave pHead null, pTail null and numElements 0.
C17_ClearReleasesAll ==
    [][op' \in {"clear", "dtor"} =>
        \A l \in Lists :
            ClearOn(l) \/ DestroyOn(l) =>
                /\ freed' = NodesOf(l)
                /\ Cardinality(Range(freed')) = Len(freed')
                /\ allocated' = allocated \ Range(NodesOf(l))
                /\ pHead'[l] = NULL
                /\ pTail'[l] = NULL
                /\ numElements'[l] = 0
                /\ ~threw'
                /\ ListUnchanged(Other(l))
      ]_vars

\* clear has just emptied a list of at least two Nodes
C17_Witness ==
    /\ op = "clear"
    /\ Len(freed) >= 2
    /\ \E l \in Lists :
        constructed[l] /\ pHead[l] = NULL /\ pTail[l] = NULL /\ numElements[l] = 0

\* ------------------------------------------------------------------ C18
\* what a fill constructor of l with num promises when it returns: num Nodes
\* that were not allocated before, linked in sequence from pHead to pTail
\* with symmetric links, null before the head and after the tail, and
\* numElements equal to num; pHead and pTail null when num is 0.
FillContract(l, num) ==
    LET new == NodesOf(l)'
    IN /\ Len(new) = num
       /\ Cardinality(Range(new)) = num
       /\ Range(new) \cap allocated = {}
       /\ allocated' = allocated \cup Range(new)
       /\ numElements'[l] = num
       /\ num = 0 => pHead'[l] = NULL /\ pTail'[l] = NULL
       /\ num > 0 =>
            /\ pHead'[l] = new[1]
            /\ pTail'[l] = new[num]
            /\ pPrev'[new[1]] = NULL
            /\ pNext'[new[num]] = NULL
            /\ \A i \in 1..(num - 1) :
                pNext'[new[i]] = new[i + 1] /\ pPrev'[new[i + 1]] = new[i]

\* C18: list(num, t) and list(num) that return fulfil FillContract for every
\* num, 0 included, with every element equal to t, respectively equal to the
\* default value T() (which is 0).
C18_Fill ==
    [][op' \in {"list_fill", "list_fill_default"} /\ ~threw' =>
        \A l \in Lists, num \in 0..MaxFill :
            /\ \A t \in T :
                FillOn(l, num, t) =>
                    /\ FillContract(l, num)
                    /\ \A i \in 1..num : ElemsOf(l)'[i] = t
            /\ \A g \in [1..num -> T] :
                FillDefaultOn(l, num, g) =>
                    /\ FillContract(l, num)
                    /\ \A i \in 1..num : ElemsOf(l)'[i] = 0
      ]_vars

\* ------------------------------------------------------------------ C19
\* C19: the copy assignment of a list to itself, lhs = lhs, changes nothing:
\* the list keeps its Nodes, their links and elements, pHead, pTail and
\* numElements, and no Node is allocated or deleted.
C19_SelfAssign ==
    [][op' = "assign_copy" =>
        \A l \in Lists :
            CopyAssignOn(l, l) =>
                /\ ListUnchanged(l)
                /\ NodesUnchanged
                /\ freed' = <<>>
                /\ ~threw'
                /\ ListUnchanged(Other(l))
      ]_vars

\* a copy assignment has just returned with nothing deleted and the two
\* lists, each holding Nodes, unlike: a list was assigned to itself
C19_Witness ==
    /\ op = "assign_copy"
    /\ ~threw
    /\ freed = <<>>
    /\ ElemsOf("A") # <<>>
    /\ ElemsOf("B") # <<>>
    /\ ElemsOf("A") # ElemsOf("B")

\* ------------------------------------------------------------------ C20
\* every Node that is allocated is met from the pHead of exactly one list (so
\* none is leaked and none is shared), no list reaches a deleted Node from
\* its pHead or its pTail, and no Node is deleted twice by a call
ExclusiveOwnership ==
    /\ \A n \in allocated :
        Cardinality({l \in Lists : constructed[l] /\ n \in Range(NodesOf(l))}) = 1
    /\ \A l \in Lists :
        constructed[l] =>
            Range(Fwd(Cur, l)) \cup Range(Bwd(Cur, l)) \subseteq allocated
    /\ Cardinality(Range(freed)) = Len(freed)

\* the calls C20 is about: default, fill, copy and move construction, copy
\* assignment, push, pop, insert (copy overload), erase and clear
OwnershipCalls ==
    {"list", "list_fill", "list_fill_default", "list_copy", "list_move",
     "assign_copy", "push_back", "push_back_move", "push_front",
     "push_front_move", "pop_back", "pop_front", "insert", "erase", "clear"}

\* C20: with two lists, exclusive ownership holds at the start and after
\* every construction (default, fill, copy, move), copy assignment, push,
\* pop, insert, erase and clear made in a state where it holds, hence in
\* every state these calls reach in any order.
C20_ExclusiveOwnership ==
    /\ ExclusiveOwnership
    /\ [][op' \in OwnershipCalls /\ ExclusiveOwnership => ExclusiveOwnership']_vars
=============================================================================
